---- MODULE Spec2Model ----
(***************************************************************************)
(* A model of darjeeling-ardupilot: the mission issuance and execution     *)
(* protocol (ardu.py), the attack watcher (attack.py), the trial executor  *)
(* (executor.py), the monitor (simple.py, core.py), the MAVLink port pool  *)
(* (plugin.py) and Mission as a value (ardu.py).                           *)
(*                                                                         *)
(* Time is counted in polling ticks.  A Stopwatch's duration is `timer';   *)
(* every time.sleep and every wait_ready lets it advance.  Values read     *)
(* from the vehicle (is_armable, home_location, armed, commands.next) are  *)
(* chosen freely at every read, so every vehicle behaviour is covered.     *)
(***************************************************************************)
EXTENDS Naturals, Sequences, FiniteSets, TLC

VARIABLES
    \* ---- Mission.issue / Mission.execute (ardu.py) ----
    mpc,            \* position of the control flow inside execute/issue
    timer,          \* timer.duration of the Stopwatch now running
    toSetup,        \* timeout_setup  (issue's `timeout')
    toMission,      \* timeout_mission
    commands,       \* Mission.commands
    vcmds,          \* connection.commands: the client-side command list
    uploaded,       \* the command list held by the vehicle
    addIdx,         \* position of `for command in self'
    armedSet,       \* connection.armed = True was written
    mode,           \* connection.mode
    startSent,      \* last-item arguments of the mission-start messages sent
    has_started,    \* execute's local has_started
    command_num,    \* execute's local command_num
    listeners,      \* number of STATUSTEXT listeners on the control session
    log,            \* history: protocol steps of issue, in order
    lateAct,        \* history: issue acted/returned with timer > timeout
    readNonZero,    \* history: some poll of execute read a non-zero cursor
    latePolls,      \* history: polls of execute made with timer > toMission
    idleReads,      \* history: a poll read zero before any non-zero read
    \* ---- run_with_monitor_in_process / run_with_monitor (executor.py) ----
    ppc,            \* position of the parent (run_with_monitor_in_process)
    wpc,            \* position of the worker (run_with_monitor)
    stack,          \* the ExitStack: contexts entered, oldest first
    exc,            \* the exception now propagating in the worker
    wret,           \* what run_with_monitor returned
    queue,          \* the multiprocessing Queue q
    result,         \* what run_with_monitor_in_process returned
    passed,         \* run_with_monitor's local `passed'
    sitl,           \* the simulator process
    relay,          \* the mavproxy relay process
    control,        \* the control session
    attackConn,     \* the attack session
    monConn,        \* the monitor session
    hasAttack,      \* the trial specifies an attack
    trigger,        \* Attack.waypoint
    \* ---- Attack.wait_and_send / wait_loop (attack.py) ----
    stop,           \* event_stop
    tpc,            \* position of the watcher thread
    wpCurrent,      \* wait_loop's local wp_current
    writes,         \* parameter writes delivered to the vehicle
    watcherLost,    \* history: the watcher met a dronekit.TimeoutError
    attackOpenLost, \* history: connection lost while opening the attack session
    monOpenLost,    \* history: connection lost while opening the monitor session
    executeCalled,  \* history: mission.execute was called
    useAfterClose,  \* history: the watcher used the attack session after close
    sawTrigger,     \* history: the watcher read a cursor >= its trigger
    sendAttempts,   \* history: calls of Attack._send
    sendAfterStop,  \* history: a parameter write started after event_stop.set()
    \* ---- SimpleMonitor (simple.py) and its use by run_with_monitor ----
    visited,        \* SimpleMonitor._visited_wps
    reachedHome,    \* SimpleMonitorStatus._reached_home
    visitedAll,     \* SimpleMonitorStatus._visited_all_wps
    notifyCalls,    \* history: calls of notify_mission_end
    visitedAtEnd,   \* history: _visited_wps as the first notify_mission_end saw it
    locAtEnd,       \* history: the vehicle's location as that call read it
    verdictRead,    \* history: run_with_monitor has read monitor.is_ok()
    settled,        \* history: the sleep of executor.py 112 has elapsed
    earlyVerdict,   \* history: is_ok() was read before that sleep had elapsed
    execOutcome,    \* history: how mission.execute ended in the worker
    acq,            \* history: resources acquired by the worker, in order
    rel,            \* history: resources released by the worker, in order
    \* ---- the MAVLink port pool (plugin.py, util.py) ----
    poolWidth,      \* number of ports in the pool's range
    poolCursor,     \* the pool's cursor, an offset into its range
    poolLast,       \* the ports returned by the last take
    poolError,      \* the last take failed with ExhaustedRange
    poolLog,        \* history: the port lists returned so far, in order
    \* ---- Mission identity (ardu.py 45-54) ----
    idA,            \* one Mission
    idB,            \* another Mission
    idEq,           \* result of idA == idB
    idHashEq,       \* result of hash(idA) == hash(idB)
    \* ---- Mission.from_file and the Mission constructor (ardu.py 45-79) ----
    ldFilename,     \* the filename given
    ldLines,        \* the lines of the file
    ldOp,           \* which of from_file and Mission(...) was called
    ldOutcome,      \* how the construction ended
    ldMission,      \* the Mission built
    \* ---- a SITL object driven by any caller (ardu.py 245-355) ----
    sState,         \* the lifecycle state of the simulator
    sProc,          \* SITL._process: none, running or exited
    sOpens,         \* calls of open
    sCloses,        \* calls of close
    sKillCmds,      \* killall commands sent through the container shell
    sWaits,         \* calls of _process.wait
    sForced,        \* calls of _process.kill
    sErr,           \* the exception the last call raised
    sClosedActs,    \* history: a call on a closed simulator did something
    \* ---- StartTestSuite._execute_with_monitor and the two timeouts ----
    cTimeoutMission,\* _execute_with_monitor's timeout_mission
    cOverall,       \* _execute_with_monitor's local timeout_overall
    cCap,           \* run_with_monitor_in_process's timeout, given to p.join
    cInner,         \* run_with_monitor's timeout, given to mission.execute
    cClock,         \* seconds since p.start()
    cExecStart,     \* cClock when mission.execute started its timer
    cWorker,        \* where the worker is
    cParent         \* where the parent is

mvars == <<mpc, timer, toSetup, toMission, commands, vcmds, uploaded, addIdx,
           armedSet, mode, startSent, has_started, command_num, listeners,
           log, lateAct, readNonZero, latePolls, idleReads>>

tvars == <<ppc, wpc, stack, exc, wret, queue, result, passed, sitl, relay,
           control, attackConn, monConn, hasAttack, trigger, stop, tpc,
           wpCurrent, writes, watcherLost, attackOpenLost, monOpenLost,
           executeCalled, useAfterClose, sawTrigger, sendAttempts,
           sendAfterStop>>

xvars == <<visited, reachedHome, visitedAll, notifyCalls, visitedAtEnd,
           locAtEnd, verdictRead, settled, earlyVerdict, execOutcome, acq,
           rel>>

pvars == <<poolWidth, poolCursor, poolLast, poolError, poolLog>>

ivars == <<idA, idB, idEq, idHashEq>>

lvars == <<ldFilename, ldLines, ldOp, ldOutcome, ldMission>>

svars == <<sState, sProc, sOpens, sCloses, sKillCmds, sWaits, sForced, sErr,
           sClosedActs>>

cvars == <<cTimeoutMission, cOverall, cCap, cInner, cClock, cExecStart,
           cWorker, cParent>>

rvars == <<lvars, svars, cvars>>

ovars == <<pvars, ivars, rvars>>

vars == <<mvars, tvars, xvars, ovars>>

(***************************************************************************)
(* Bounds of the model.                                                    *)
(***************************************************************************)
MaxTimeout == 2     \* timeouts range over 0..MaxTimeout ticks
MaxStep == 2        \* a sleep or a wait lasts 1..MaxStep ticks
MaxCursor == 2      \* commands.next ranges over 0..MaxCursor
MaxCmds == 2        \* a mission has 1..MaxCmds commands

MaxWidth == 6       \* a port pool holds 1..MaxWidth ports
MaxTake == 4        \* one take asks for 1..MaxTake ports
MaxCalls == 3       \* a method of an object is called at most MaxCalls times

MaxClock == MaxTimeout + MaxStep + 1

Cmds == {"wp_a", "wp_b"}

Min(a, b) == IF a <= b THEN a ELSE b

\* Stopwatch.duration after d more ticks.  Durations beyond MaxClock compare
\* with every timeout like MaxClock itself, so the clock saturates there.
Advance(t, d) == Min(t + d, MaxClock)

\* time_left() of issue: max(0.0, timeout - timer.duration)
time_left == IF toSetup >= timer THEN toSetup - timer ELSE 0

SeqsUpTo(S, n) == UNION {[1..k -> S] : k \in 0..n}

\* Mission.validate_commands: a mission has at least one command
Missions == {s \in SeqsUpTo(Cmds, MaxCmds) : Len(s) >= 1}

\* what the vehicle's command list may hold before the trial
PreviousLists == {<<>>, <<"old">>}

\* a SimpleMonitor as attr builds it (simple.py 27-35), and a worker that
\* has acquired nothing
MonitorFresh ==
    /\ visited = {} /\ reachedHome = FALSE /\ visitedAll = FALSE
    /\ notifyCalls = 0 /\ visitedAtEnd = {} /\ locAtEnd = <<0, 0>>
    /\ verdictRead = FALSE /\ settled = FALSE /\ earlyVerdict = FALSE
    /\ execOutcome = "none" /\ acq = <<>> /\ rel = <<>>

PoolIdle ==
    /\ poolWidth = 1 /\ poolCursor = 0 /\ poolLast = <<>>
    /\ poolError = FALSE /\ poolLog = <<>>

IdentityIdle ==
    /\ idA = [filename |-> "a.wpl", commands |-> <<"wp_a">>]
    /\ idB = [filename |-> "a.wpl", commands |-> <<"wp_a">>]
    /\ idEq = "unset" /\ idHashEq = "unset"

\* the value of ldMission while no Mission has been built
NoMission ==
    [filename |-> "", commands |-> <<>>, home_location |-> <<0, 0>>,
     waypoints |-> {}]

LoadIdle ==
    /\ ldFilename = "a.wpl" /\ ldLines = <<>> /\ ldOp = "none"
    /\ ldOutcome = "unset" /\ ldMission = NoMission

SitlIdle ==
    /\ sState = "created" /\ sProc = "none" /\ sOpens = 0 /\ sCloses = 0
    /\ sKillCmds = 0 /\ sWaits = 0 /\ sForced = 0 /\ sErr = "none"
    /\ sClosedActs = FALSE

CapIdle ==
    /\ cTimeoutMission = 0 /\ cOverall = 0 /\ cCap = 0 /\ cInner = 0
    /\ cClock = 0 /\ cExecStart = 0 /\ cWorker = "idle" /\ cParent = "idle"

RestIdle == LoadIdle /\ SitlIdle /\ CapIdle

TrialIdle ==
    /\ ppc = "idle" /\ wpc = "idle" /\ stack = <<>> /\ exc = "none"
    /\ wret = "unset" /\ queue = <<>> /\ result = "unset" /\ passed = FALSE
    /\ sitl = "created" /\ relay = "none" /\ control = "none"
    /\ attackConn = "none" /\ monConn = "none" /\ hasAttack = FALSE
    /\ trigger = 0 /\ stop = FALSE /\ tpc = "none" /\ wpCurrent = 0
    /\ writes = 0 /\ watcherLost = FALSE /\ attackOpenLost = FALSE
    /\ monOpenLost = FALSE /\ executeCalled = FALSE /\ useAfterClose = FALSE
    /\ sendAfterStop = FALSE /\ sawTrigger = FALSE /\ sendAttempts = 0
    /\ MonitorFresh

(***************************************************************************)
(* Mission.issue                                                           *)
(***************************************************************************)
MInit ==
    /\ mpc = "i_armable"
    /\ timer = 0
    /\ toSetup \in 0..MaxTimeout
    /\ toMission \in 0..MaxTimeout
    /\ commands \in Missions
    /\ \E prev \in PreviousLists : vcmds = prev /\ uploaded = prev
    /\ addIdx = 1
    /\ armedSet = FALSE
    /\ mode = "STABILIZE"
    /\ startSent = <<>>
    /\ has_started = FALSE
    /\ command_num = 0
    /\ listeners = 0
    /\ log = <<>>
    /\ lateAct = FALSE
    /\ readNonZero = FALSE
    /\ latePolls = 0
    /\ idleReads = FALSE
    /\ TrialIdle
    /\ PoolIdle
    /\ IdentityIdle
    /\ RestIdle

\* a deadline check that never fires
SetupDeadlinePassed_Never == FALSE

\* ardu.py 134, 141, 155: if timer.duration > timeout
SetupDeadlinePassed == timer > toSetup

\* a clear() that leaves the list as it was
Cleared_Keep(list) == list

\* ardu.py 162: vcmds.clear()
Cleared(list) == <<>>

\* time.sleep: the clock advances by at least one tick
Sleep == \E d \in 1..MaxStep : timer' = Advance(timer, d)

\* ardu.py 133-136: while not connection.is_armable
IssuePollArmable ==
    /\ mpc = "i_armable"
    /\ \E armable \in BOOLEAN :
         IF armable
         THEN /\ mpc' = "i_home"
              /\ log' = Append(log, "armable")
              /\ UNCHANGED timer
         ELSE IF SetupDeadlinePassed
         THEN /\ mpc' = "raised_setup"
              /\ UNCHANGED <<log, timer>>
         ELSE /\ Sleep
              /\ UNCHANGED <<mpc, log>>
    /\ UNCHANGED <<toSetup, toMission, commands, vcmds, uploaded, addIdx,
                   armedSet, mode, startSent, has_started, command_num,
                   listeners, lateAct, readNonZero, latePolls, idleReads>>
    /\ UNCHANGED <<tvars, xvars, ovars>>

\* ardu.py 140-149: while not connection.home_location, with the download
\* and its wait_ready(timeout=time_left()), which returns within its timeout
\* or raises dronekit.TimeoutError at it
IssuePollHome ==
    /\ mpc = "i_home"
    /\ \E home \in BOOLEAN :
         IF home
         THEN /\ mpc' = "i_arm"
              /\ log' = Append(log, "home")
              /\ UNCHANGED timer
         ELSE IF SetupDeadlinePassed
         THEN /\ mpc' = "raised_setup"
              /\ UNCHANGED <<log, timer>>
         ELSE \/ /\ \E w \in 0..Min(time_left, MaxStep), d \in 1..MaxStep :
                      timer' = Advance(Advance(timer, w), d)
                 /\ UNCHANGED <<mpc, log>>
              \/ /\ timer' = Advance(timer, time_left)
                 /\ mpc' = "raised_setup"
                 /\ UNCHANGED log
    /\ UNCHANGED <<toSetup, toMission, commands, vcmds, uploaded, addIdx,
                   armedSet, mode, startSent, has_started, command_num,
                   listeners, lateAct, readNonZero, latePolls, idleReads>>
    /\ UNCHANGED <<tvars, xvars, ovars>>

\* armed is set, and the wait for the vehicle to report armed is skipped
IssueArm_NoWait ==
    /\ mpc = "i_arm"
    /\ armedSet' = TRUE
    /\ log' = Append(log, "set_armed")
    /\ lateAct' = (lateAct \/ timer > toSetup)
    /\ mpc' = "i_clear"
    /\ UNCHANGED <<timer, toSetup, toMission, commands, vcmds, uploaded,
                   addIdx, mode, startSent, has_started, command_num,
                   listeners, readNonZero, latePolls, idleReads>>
    /\ UNCHANGED <<tvars, xvars, ovars>>

\* ardu.py 153: connection.armed = True
IssueArm ==
    /\ mpc = "i_arm"
    /\ armedSet' = TRUE
    /\ log' = Append(log, "set_armed")
    /\ lateAct' = (lateAct \/ timer > toSetup)
    /\ mpc' = "i_armed"
    /\ UNCHANGED <<timer, toSetup, toMission, commands, vcmds, uploaded,
                   addIdx, mode, startSent, has_started, command_num,
                   listeners, readNonZero, latePolls, idleReads>>
    /\ UNCHANGED <<tvars, xvars, ovars>>

\* ardu.py 154-157: while not connection.armed
IssuePollArmed ==
    /\ mpc = "i_armed"
    /\ \E armed \in BOOLEAN :
         IF armed
         THEN /\ mpc' = "i_clear"
              /\ log' = Append(log, "armed")
              /\ UNCHANGED timer
         ELSE IF SetupDeadlinePassed
         THEN /\ mpc' = "raised_setup"
              /\ UNCHANGED <<log, timer>>
         ELSE /\ Sleep
              /\ UNCHANGED <<mpc, log>>
    /\ UNCHANGED <<toSetup, toMission, commands, vcmds, uploaded, addIdx,
                   armedSet, mode, startSent, has_started, command_num,
                   listeners, lateAct, readNonZero, latePolls, idleReads>>
    /\ UNCHANGED <<tvars, xvars, ovars>>

\* ardu.py 161-162: vcmds = connection.commands; vcmds.clear()
IssueClear ==
    /\ mpc = "i_clear"
    /\ vcmds' = Cleared(vcmds)
    /\ addIdx' = 1
    /\ log' = Append(log, "clear")
    /\ mpc' = "i_add"
    /\ UNCHANGED <<timer, toSetup, toMission, commands, uploaded, armedSet,
                   mode, startSent, has_started, command_num, listeners,
                   lateAct, readNonZero, latePolls, idleReads>>
    /\ UNCHANGED <<tvars, xvars, ovars>>

\* ardu.py 163-164: for command in self: vcmds.add(command)
IssueAdd ==
    /\ mpc = "i_add"
    /\ IF addIdx <= Len(commands)
       THEN /\ vcmds' = Append(vcmds, commands[addIdx])
            /\ addIdx' = addIdx + 1
            /\ log' = Append(log, "add")
            /\ UNCHANGED mpc
       ELSE /\ mpc' = "i_upload"
            /\ UNCHANGED <<vcmds, addIdx, log>>
    /\ UNCHANGED <<timer, toSetup, toMission, commands, uploaded, armedSet,
                   mode, startSent, has_started, command_num, listeners,
                   lateAct, readNonZero, latePolls, idleReads>>
    /\ UNCHANGED <<tvars, xvars, ovars>>

\* ardu.py 165-169: vcmds.upload(), then wait_ready(timeout=time_left())
IssueUpload ==
    /\ mpc = "i_upload"
    /\ uploaded' = vcmds
    /\ lateAct' = (lateAct \/ timer > toSetup)
    /\ \/ /\ \E w \in 0..Min(time_left, MaxStep) : timer' = Advance(timer, w)
          /\ log' = log \o <<"upload", "ack">>
          /\ mpc' = "i_mode"
       \/ /\ timer' = Advance(timer, time_left)
          /\ log' = Append(log, "upload")
          /\ mpc' = "raised_setup"
    /\ UNCHANGED <<toSetup, toMission, commands, vcmds, addIdx, armedSet,
                   mode, startSent, has_started, command_num, listeners,
                   readNonZero, latePolls, idleReads>>
    /\ UNCHANGED <<tvars, xvars, ovars>>

\* ardu.py 173: connection.mode = dronekit.VehicleMode('AUTO')
IssueMode ==
    /\ mpc = "i_mode"
    /\ mode' = "AUTO"
    /\ log' = Append(log, "mode")
    /\ lateAct' = (lateAct \/ timer > toSetup)
    /\ mpc' = "i_start"
    /\ UNCHANGED <<timer, toSetup, toMission, commands, vcmds, uploaded,
                   addIdx, armedSet, startSent, has_started, command_num,
                   listeners, readNonZero, latePolls, idleReads>>
    /\ UNCHANGED <<tvars, xvars, ovars>>

\* ardu.py 175-177: the mission-start command, last item len(self) + 1;
\* issue returns
IssueStart ==
    /\ mpc = "i_start"
    /\ startSent' = Append(startSent, Len(commands) + 1)
    /\ log' = Append(log, "start")
    /\ lateAct' = (lateAct \/ timer > toSetup)
    /\ mpc' = "e_setup"
    /\ UNCHANGED <<timer, toSetup, toMission, commands, vcmds, uploaded,
                   addIdx, armedSet, mode, has_started, command_num,
                   listeners, readNonZero, latePolls, idleReads>>
    /\ UNCHANGED <<tvars, xvars, ovars>>

IssueNext ==
    \/ IssuePollArmable
    \/ IssuePollHome
    \/ IssueArm
    \/ IssuePollArmed
    \/ IssueClear
    \/ IssueAdd
    \/ IssueUpload
    \/ IssueMode
    \/ IssueStart

\* Vehicle.add_message_listener as ardu.py 208 and 240 call it: the
\* listener joins the session's listeners unless it is one of them already
add_message_listener(count, registered) ==
    IF registered THEN count ELSE count + 1

(***************************************************************************)
(* Mission.execute                                                         *)
(***************************************************************************)
\* ardu.py 199-209: a new Stopwatch, the locals, the STATUSTEXT listener
ExecSetup ==
    /\ mpc = "e_setup"
    /\ timer' = 0
    /\ has_started' = FALSE
    /\ command_num' = 0
    /\ listeners' = add_message_listener(listeners, FALSE)
    /\ mpc' = "e_poll"
    /\ UNCHANGED <<toSetup, toMission, commands, vcmds, uploaded, addIdx,
                   armedSet, mode, startSent, log, lateAct, readNonZero,
                   latePolls, idleReads>>
    /\ UNCHANGED <<tvars, xvars, ovars>>

\* a completion test that forgets has_started
ShouldBreak_IgnoreStart(started, next) == next = 0

\* ardu.py 230: if has_started and command_num == 0: break
ShouldBreak(started, next) == started /\ next = 0

\* a mission deadline that never fires
MissionDeadlinePassed_Never == FALSE

\* ardu.py 233: if timer.duration > timeout_mission
MissionDeadlinePassed == timer > toMission

\* ardu.py 215-237: one iteration of the polling loop
ExecPoll ==
    /\ mpc = "e_poll"
    /\ \E next \in 0..MaxCursor :
         LET started == has_started \/ next # 0 IN
         /\ command_num' = next
         /\ has_started' = started
         /\ readNonZero' = (readNonZero \/ next # 0)
         /\ idleReads' = (idleReads \/ (~readNonZero /\ next = 0))
         /\ latePolls' = IF timer > toMission
                          THEN Min(latePolls + 1, 2) ELSE latePolls
         /\ IF ShouldBreak(started, next)
            THEN /\ mpc' = "e_detach"
                 /\ UNCHANGED timer
            ELSE IF MissionDeadlinePassed
            THEN /\ mpc' = "raised_mission"
                 /\ UNCHANGED timer
            ELSE /\ Sleep
                 /\ UNCHANGED mpc
    /\ UNCHANGED <<toSetup, toMission, commands, vcmds, uploaded, addIdx,
                   armedSet, mode, startSent, listeners, log, lateAct>>
    /\ UNCHANGED <<tvars, xvars, ovars>>

\* ardu.py 239-242: after the loop, add_message_listener is called again
\* with the same listener; execute returns
ExecFinish ==
    /\ mpc = "e_detach"
    /\ listeners' = add_message_listener(listeners, TRUE)
    /\ mpc' = "returned"
    /\ UNCHANGED <<timer, toSetup, toMission, commands, vcmds, uploaded,
                   addIdx, armedSet, mode, startSent, has_started,
                   command_num, log, lateAct, readNonZero, latePolls,
                   idleReads>>
    /\ UNCHANGED <<tvars, xvars, ovars>>

ExecNext ==
    \/ ExecSetup
    \/ ExecPoll
    \/ ExecFinish

MNext == IssueNext \/ ExecNext

\* Mission.execute on a control session, for every vehicle behaviour
SpecMission == MInit /\ [][MNext]_vars

\* the same, with the calling thread kept running
LiveMission == MInit /\ [][MNext]_vars /\ WF_vars(MNext)

(***************************************************************************)
(* SimpleMonitor (simple.py) and the Mission fields it reads (ardu.py)     *)
(*                                                                         *)
(* Locations are pairs <<lat, lon>> on a grid whose unit is the angle that *)
(* distance_metres turns into one metre (1 / 1.113195e5 degree), so the    *)
(* distance of two locations is the square root of distance_metres_sq.     *)
(***************************************************************************)
DIST_APPROX_SAME == 3

\* where a command of Cmds lies: its x and y (ardu.py 58-59)
Position(c) == IF c = "wp_a" THEN <<1, 1>> ELSE <<4, 1>>

\* what connection.location.global_frame may hold at the end of a mission
Locations == {<<1, 1>>, <<3, 3>>, <<4, 1>>}

\* ardu.py 57-63: home_location is taken from commands[0]
home_location(cmds) == Position(cmds[1])

\* ardu.py 64-65: frozenset(i for i in range(len(self.commands)))
waypoints(cmds) == 0..(Len(cmds) - 1)

Diff(a, b) == IF a >= b THEN a - b ELSE b - a

\* ardu.py 40-42: d_lat*d_lat + d_lon*d_lon, the square of distance_metres
distance_metres_sq(x, y) ==
    Diff(y[1], x[1]) * Diff(y[1], x[1]) + Diff(y[2], x[2]) * Diff(y[2], x[2])

\* simple.py 76-78: dist_to_home < DIST_APPROX_SAME, both sides squared
NearHome(x, y) ==
    distance_metres_sq(x, y) < DIST_APPROX_SAME * DIST_APPROX_SAME

\* a comparison that lets indices outside the mission pass
VisitedAll_AtLeast(visited_wps, expected_wps) ==
    expected_wps \subseteq visited_wps

\* simple.py 67-69: visited_wps == expected_wps
VisitedAll(visited_wps, expected_wps) == visited_wps = expected_wps

\* SimpleMonitorStatus.is_ok, simple.py 23-24, through Monitor.is_ok,
\* core.py 40-41
is_ok == reachedHome /\ visitedAll

\* a flag that is assigned the result of its test
FlagAfter_Assign(flag, test) == test

\* simple.py 67-68 and 78-79: if <test>: self._status._<flag> = True
FlagAfter(flag, test) == flag \/ test

\* SimpleMonitor.notify_mission_end, simple.py 56-79: each flag is set when
\* its test passes and is left as it is otherwise
notify_mission_end ==
    \E loc \in Locations :
        /\ visitedAll' =
               FlagAfter(visitedAll,
                         VisitedAll(visited, waypoints(commands)))
        /\ reachedHome' =
               FlagAfter(reachedHome,
                         NearHome(home_location(commands), loc))
        /\ notifyCalls' = Min(notifyCalls + 1, 2)
        /\ visitedAtEnd' = IF notifyCalls = 0 THEN visited ELSE visitedAtEnd
        /\ locAtEnd' = IF notifyCalls = 0 THEN loc ELSE locAtEnd

\* the seq a MISSION_CURRENT message may carry: indices of the missions
\* modelled, and one beyond those of a mission of up to two commands
MessageSeqs == {0, 1, 2}

\* listener_waypoint, simple.py 50-54: a MISSION_CURRENT message arrives on
\* the monitor session, in the process that holds the monitor
listener_waypoint ==
    /\ monConn = "open" /\ wpc # "w_killed"
    /\ \E seq \in MessageSeqs : visited' = visited \cup {seq}
    /\ UNCHANGED <<reachedHome, visitedAll, notifyCalls, visitedAtEnd,
                   locAtEnd, verdictRead, settled, earlyVerdict, execOutcome,
                   acq, rel>>
    /\ UNCHANGED <<mvars, tvars, ovars>>

(***************************************************************************)
(* run_with_monitor_in_process, run_with_monitor and the attack watcher    *)
(*                                                                         *)
(* executor.py 76 calls SITL.launch; ardu.py defines the launcher that     *)
(* yields the three URLs as SITL.launch_with_mavproxy, which is what the   *)
(* model follows.  A launch that raises is one of the modelled outcomes.   *)
(* dronekit.connect and the reads and writes on a session either succeed   *)
(* or raise dronekit.TimeoutError, the connection loss the handlers of     *)
(* attack.py expect.  Mission.execute is taken by its two outcomes, a       *)
(* normal return or the builtin TimeoutError.                              *)
(***************************************************************************)
Outcomes == {"TestOutcome(True)", "TestOutcome(False)"}

\* no issue and no execute in progress
ProtocolIdle ==
    /\ mpc = "idle" /\ timer = 0 /\ toSetup = 0 /\ toMission = 0
    /\ vcmds = <<>> /\ uploaded = <<>>
    /\ addIdx = 1 /\ armedSet = FALSE /\ mode = "STABILIZE"
    /\ startSent = <<>> /\ has_started = FALSE /\ command_num = 0
    /\ listeners = 0 /\ log = <<>> /\ lateAct = FALSE
    /\ readNonZero = FALSE /\ latePolls = 0 /\ idleReads = FALSE

MissionIdle == ProtocolIdle /\ commands = <<"wp_a">>

TInit ==
    /\ ppc = "p_start" /\ wpc = "w_idle"
    /\ stack = <<>> /\ exc = "none" /\ wret = "unset" /\ queue = <<>>
    /\ result = "unset" /\ passed = FALSE
    /\ sitl = "created" /\ relay = "none" /\ control = "none"
    /\ attackConn = "none" /\ monConn = "none"
    /\ hasAttack \in BOOLEAN
    /\ trigger \in (IF hasAttack THEN 0..MaxCursor ELSE {0})
    /\ stop = FALSE /\ tpc = "none" /\ wpCurrent = 0 /\ writes = 0
    /\ watcherLost = FALSE /\ attackOpenLost = FALSE /\ monOpenLost = FALSE
    /\ executeCalled = FALSE /\ useAfterClose = FALSE
    /\ sawTrigger = FALSE /\ sendAttempts = 0 /\ sendAfterStop = FALSE
    /\ MonitorFresh
    /\ MissionIdle
    /\ PoolIdle
    /\ IdentityIdle
    /\ RestIdle

\* a liveness test that never finds the worker alive
WorkerAlive_Never == FALSE

\* executor.py 37: p.is_alive()
WorkerAlive == wpc \notin {"w_idle", "w_exited", "w_killed"}

WatcherActive == tpc \in {"wait", "read", "send"}

\* ---- the watcher thread: wait_loop, attack.py 39-50 ----

\* attack.py 41: while not event_stop.wait(0.1)
WatcherWait ==
    /\ tpc = "wait"
    /\ tpc' = IF stop THEN "exit" ELSE "read"
    /\ UNCHANGED <<ppc, wpc, stack, exc, wret, queue, result, passed, sitl,
                   relay, control, attackConn, monConn, hasAttack, trigger,
                   stop, wpCurrent, writes, watcherLost, attackOpenLost,
                   monOpenLost, executeCalled, useAfterClose, sawTrigger,
                   sendAttempts, sendAfterStop>>
    /\ UNCHANGED <<mvars, xvars, ovars>>

\* a trigger test with the comparison turned round
Triggered_Below(current, wp_trigger) == current <= wp_trigger

\* attack.py 44: if wp_current >= wp_trigger
Triggered(current, wp_trigger) == current >= wp_trigger

\* attack.py 43-44 and 47-50: wp_current = connection.commands.next
WatcherRead ==
    /\ tpc = "read"
    /\ useAfterClose' = (useAfterClose \/ attackConn = "closed")
    /\ \/ \E v \in 0..MaxCursor :
            /\ wpCurrent' = v
            /\ sawTrigger' = (sawTrigger \/ v >= trigger)
            /\ tpc' = IF Triggered(v, trigger) THEN "send" ELSE "wait"
            /\ UNCHANGED watcherLost
       \/ /\ watcherLost' = TRUE
          /\ tpc' = "exit"
          /\ UNCHANGED <<wpCurrent, sawTrigger>>
    /\ UNCHANGED <<ppc, wpc, stack, exc, wret, queue, result, passed, sitl,
                   relay, control, attackConn, monConn, hasAttack, trigger,
                   stop, writes, attackOpenLost, monOpenLost, executeCalled,
                   sendAttempts, sendAfterStop>>
    /\ UNCHANGED <<mvars, xvars, ovars>>

\* a watcher that goes on watching after the write
AfterSend_KeepWatching == "wait"

\* attack.py 46: return
AfterSend == "exit"

\* attack.py 45-46 and Attack._send, 27-33: the parameter write
WatcherSend ==
    /\ tpc = "send"
    /\ useAfterClose' = (useAfterClose \/ attackConn = "closed")
    /\ sendAfterStop' = (sendAfterStop \/ stop)
    /\ sendAttempts' = Min(sendAttempts + 1, 2)
    /\ \/ /\ writes' = Min(writes + 1, 2)
          /\ UNCHANGED watcherLost
       \/ /\ watcherLost' = TRUE
          /\ UNCHANGED writes
    /\ tpc' = AfterSend
    /\ UNCHANGED <<ppc, wpc, stack, exc, wret, queue, result, passed, sitl,
                   relay, control, attackConn, monConn, hasAttack, trigger,
                   stop, wpCurrent, attackOpenLost, monOpenLost,
                   executeCalled, sawTrigger>>
    /\ UNCHANGED <<mvars, xvars, ovars>>

WatcherNext ==
    \/ WatcherWait
    \/ WatcherRead
    \/ WatcherSend

\* ---- the worker: run_with_monitor, executor.py 47-119 ----

thr == <<wpCurrent, writes, watcherLost, useAfterClose, sawTrigger,
         sendAttempts, sendAfterStop>>
inp == <<hasAttack, trigger>>
par == <<ppc, queue, result>>
monv == <<visited, reachedHome, visitedAll, notifyCalls, visitedAtEnd,
          locAtEnd>>
vrd == <<verdictRead, settled, earlyVerdict>>

\* a worker that goes on to connect after a failed launch
AfterLaunchFailure_GoOn == "w_connect"

\* executor.py 75-76: an exception raised by enter_context leaves the with
\* statement of executor.py 65 at once
AfterLaunchFailure == "w_unwind"

\* executor.py 69-76 with ardu.py 277-283 and SITL.open, 326-332:
\* the simulator process is started
WorkerLaunchSitl ==
    /\ wpc = "w_launch"
    /\ \/ /\ sitl' = "ready"
          /\ acq' = Append(acq, "sitl")
          /\ wpc' = "w_relay"
          /\ UNCHANGED exc
       \/ /\ exc' = "LaunchError"
          /\ wpc' = AfterLaunchFailure
          /\ UNCHANGED <<sitl, acq>>
    /\ UNCHANGED <<stack, wret, passed, relay, control, attackConn, monConn,
                   stop, tpc, attackOpenLost, monOpenLost, executeCalled>>
    /\ UNCHANGED <<thr, inp, par, mvars, monv, vrd, execOutcome, rel, ovars>>

\* ardu.py 284 with SITL.mavproxy, 301-319: the relay is started and the
\* launch context is entered; a Popen that raises leaves p = None and
\* unwinds through SITL.__exit__
WorkerStartRelay ==
    /\ wpc = "w_relay"
    /\ \/ /\ relay' = "running"
          /\ stack' = Append(stack, "sitl")
          /\ wpc' = "w_connect"
          /\ acq' = Append(acq, "relay")
          /\ UNCHANGED <<exc, sitl, rel>>
       \/ /\ exc' = "LaunchError"
          /\ sitl' = "closed"
          /\ wpc' = AfterLaunchFailure
          /\ rel' = Append(rel, "sitl")
          /\ UNCHANGED <<relay, stack, acq>>
    /\ UNCHANGED <<wret, passed, control, attackConn, monConn, stop, tpc,
                   attackOpenLost, monOpenLost, executeCalled>>
    /\ UNCHANGED <<thr, inp, par, mvars, monv, vrd, execOutcome, ovars>>

\* executor.py 82-84: closing(dronekit.connect(url_dronekit, ...))
WorkerConnect ==
    /\ wpc = "w_connect"
    /\ \/ /\ control' = "open"
          /\ stack' = Append(stack, "control")
          /\ wpc' = "w_attack"
          /\ acq' = Append(acq, "control")
          /\ UNCHANGED exc
       \/ /\ exc' = "dronekit.TimeoutError"
          /\ wpc' = "w_unwind"
          /\ UNCHANGED <<control, stack, acq>>
    /\ UNCHANGED <<wret, passed, sitl, relay, attackConn, monConn, stop, tpc,
                   attackOpenLost, monOpenLost, executeCalled>>
    /\ UNCHANGED <<thr, inp, par, mvars, monv, vrd, execOutcome, rel, ovars>>

\* executor.py 87-89 with attack.py 52-57: entering wait_and_send.  A
\* connect that raises is caught at attack.py 61, the generator ends
\* without yielding, and contextmanager.__enter__ raises RuntimeError
WorkerEnterAttack ==
    /\ wpc = "w_attack"
    /\ IF ~hasAttack
       THEN /\ wpc' = "w_monitor"
            /\ UNCHANGED <<attackConn, tpc, stack, exc, attackOpenLost, acq>>
       ELSE \/ /\ attackConn' = "open"
               /\ tpc' = "wait"
               /\ stack' = Append(stack, "attack")
               /\ wpc' = "w_monitor"
               /\ acq' = Append(acq, "attack")
               /\ UNCHANGED <<exc, attackOpenLost>>
            \/ /\ attackOpenLost' = TRUE
               /\ exc' = "RuntimeError"
               /\ wpc' = "w_unwind"
               /\ UNCHANGED <<attackConn, tpc, stack, acq>>
    /\ UNCHANGED <<wret, passed, sitl, relay, control, monConn, stop,
                   monOpenLost, executeCalled>>
    /\ UNCHANGED <<thr, inp, par, mvars, monv, vrd, execOutcome, rel, ovars>>

\* executor.py 93-94 with SimpleMonitor.open, simple.py 45-54, and
\* Monitor.__enter__, core.py 43-45
WorkerEnterMonitor ==
    /\ wpc = "w_monitor"
    /\ \/ /\ monConn' = "open"
          /\ stack' = Append(stack, "monitor")
          /\ wpc' = "w_execute"
          /\ acq' = Append(acq, "monitor")
          /\ UNCHANGED <<exc, monOpenLost>>
       \/ /\ monOpenLost' = TRUE
          /\ exc' = "dronekit.TimeoutError"
          /\ wpc' = "w_unwind"
          /\ UNCHANGED <<monConn, stack, acq>>
    /\ UNCHANGED <<wret, passed, sitl, relay, control, attackConn, stop, tpc,
                   attackOpenLost, executeCalled>>
    /\ UNCHANGED <<thr, inp, par, mvars, monv, vrd, execOutcome, rel, ovars>>

\* a handler that goes on to the notification after a timeout
AfterTimeout_Notify == "w_notify"

\* executor.py 103-106: except TimeoutError: passed = False, and on to the
\* outcome
AfterTimeout == "w_outcome"

\* executor.py 98-106: mission.execute returns, or raises TimeoutError
WorkerExecute ==
    /\ wpc = "w_execute"
    /\ executeCalled' = TRUE
    /\ \/ /\ wpc' = "w_notify"
          /\ execOutcome' = "returned"
          /\ UNCHANGED passed
       \/ /\ passed' = FALSE
          /\ execOutcome' = "TimeoutError"
          /\ wpc' = AfterTimeout
    /\ UNCHANGED <<stack, exc, wret, sitl, relay, control, attackConn,
                   monConn, stop, tpc, attackOpenLost, monOpenLost>>
    /\ UNCHANGED <<thr, inp, par, mvars, monv, vrd, acq, rel, ovars>>

\* executor.py 110: monitor.notify_mission_end()
WorkerNotify ==
    /\ wpc = "w_notify"
    /\ notify_mission_end
    /\ wpc' = "w_verdict"
    /\ UNCHANGED <<stack, exc, wret, passed, sitl, relay, control,
                   attackConn, monConn, stop, tpc, attackOpenLost,
                   monOpenLost, executeCalled>>
    /\ UNCHANGED <<thr, inp, par, mvars, visited, vrd, execOutcome, acq, rel,
                   ovars>>

\* executor.py 111: passed = monitor.is_ok()
WorkerVerdict ==
    /\ wpc = "w_verdict"
    /\ passed' = is_ok
    /\ verdictRead' = TRUE
    /\ earlyVerdict' = ~settled
    /\ wpc' = "w_settle"
    /\ UNCHANGED <<stack, exc, wret, sitl, relay, control, attackConn,
                   monConn, stop, tpc, attackOpenLost, monOpenLost,
                   executeCalled, settled>>
    /\ UNCHANGED <<thr, inp, par, mvars, monv, execOutcome, acq, rel, ovars>>

\* executor.py 112: time.sleep(0.5)
WorkerSettle ==
    /\ wpc = "w_settle"
    /\ settled' = TRUE
    /\ wpc' = "w_outcome"
    /\ UNCHANGED <<stack, exc, wret, passed, sitl, relay, control,
                   attackConn, monConn, stop, tpc, attackOpenLost,
                   monOpenLost, executeCalled, verdictRead, earlyVerdict>>
    /\ UNCHANGED <<thr, inp, par, mvars, monv, execOutcome, acq, rel, ovars>>

\* executor.py 113-119: outcome = TestOutcome(passed, ...); return outcome
WorkerOutcome ==
    /\ wpc = "w_outcome"
    /\ wret' = IF passed THEN "TestOutcome(True)" ELSE "TestOutcome(False)"
    /\ wpc' = "w_unwind"
    /\ UNCHANGED <<stack, exc, passed, sitl, relay, control, attackConn,
                   monConn, stop, tpc, attackOpenLost, monOpenLost,
                   executeCalled>>
    /\ UNCHANGED <<thr, inp, par, mvars, xvars, ovars>>

Top == stack[Len(stack)]
Pop == SubSeq(stack, 1, Len(stack) - 1)

\* Monitor.__exit__, core.py 47-48, and SimpleMonitor.close, simple.py 81-83
UnwindMonitor ==
    /\ wpc = "w_unwind" /\ stack # <<>> /\ Top = "monitor"
    /\ monConn' = "closed"
    /\ stack' = Pop
    /\ rel' = Append(rel, "monitor")
    /\ UNCHANGED <<wpc, exc, wret, passed, sitl, relay, control, attackConn,
                   stop, tpc, attackOpenLost, monOpenLost, executeCalled>>
    /\ UNCHANGED <<thr, inp, par, mvars, monv, vrd, execOutcome, acq, ovars>>

\* attack.py 58-59: finally: event_stop.set()
UnwindAttackStop ==
    /\ wpc = "w_unwind" /\ stack # <<>> /\ Top = "attack"
    /\ stop' = TRUE
    /\ wpc' = "w_join"
    /\ UNCHANGED <<stack, exc, wret, passed, sitl, relay, control,
                   attackConn, monConn, tpc, attackOpenLost, monOpenLost,
                   executeCalled>>
    /\ UNCHANGED <<thr, inp, par, mvars, xvars, ovars>>

\* a join that does not wait for the thread
Joined_NoWait == TRUE

\* attack.py 60: thread_loop.join() returns once the thread has ended
Joined == tpc = "exit"

\* an exception handler that lets every exception pass
Swallows_Nothing(e) == FALSE

\* attack.py 61: except dronekit.TimeoutError, around the yield
Swallows(e) == e = "dronekit.TimeoutError"

\* attack.py 60-62 and 53: the join, closing(conn) and the handler that
\* ends the generator, by which contextmanager.__exit__ reports the
\* exception as handled
UnwindAttackJoin ==
    /\ wpc = "w_join"
    /\ Joined
    /\ attackConn' = "closed"
    /\ exc' = IF Swallows(exc) THEN "none" ELSE exc
    /\ stack' = Pop
    /\ rel' = Append(rel, "attack")
    /\ wpc' = "w_unwind"
    /\ UNCHANGED <<wret, passed, sitl, relay, control, monConn, stop, tpc,
                   attackOpenLost, monOpenLost, executeCalled>>
    /\ UNCHANGED <<thr, inp, par, mvars, monv, vrd, execOutcome, acq, ovars>>

\* closing(vehicle).__exit__, executor.py 82-83
UnwindControl ==
    /\ wpc = "w_unwind" /\ stack # <<>> /\ Top = "control"
    /\ control' = "closed"
    /\ stack' = Pop
    /\ rel' = Append(rel, "control")
    /\ UNCHANGED <<wpc, exc, wret, passed, sitl, relay, attackConn, monConn,
                   stop, tpc, attackOpenLost, monOpenLost, executeCalled>>
    /\ UNCHANGED <<thr, inp, par, mvars, monv, vrd, execOutcome, acq, ovars>>

\* leaving launch_with_mavproxy: SITL.mavproxy's finally, ardu.py 320-324
\* (killpg, then p.wait(2), which raises TimeoutExpired when the relay has
\* not exited), then SITL.__exit__ and SITL.close, ardu.py 334-355
UnwindSitl ==
    /\ wpc = "w_unwind" /\ stack # <<>> /\ Top = "sitl"
    /\ \/ /\ relay' = "terminated"
          /\ rel' = rel \o <<"relay", "sitl">>
          /\ UNCHANGED exc
       \/ /\ relay' = "signalled"
          /\ rel' = Append(rel, "sitl")
          /\ exc' = "TimeoutExpired"
    /\ sitl' = "closed"
    /\ stack' = Pop
    /\ UNCHANGED <<wpc, wret, passed, control, attackConn, monConn, stop,
                   tpc, attackOpenLost, monOpenLost, executeCalled>>
    /\ UNCHANGED <<thr, inp, par, mvars, monv, vrd, execOutcome, acq, ovars>>

\* the with statement of executor.py 65 is left.  With an exception the
\* worker dies and puts nothing.  Without one, run_with_monitor returns its
\* outcome, or falls off its end and returns None when an exception raised
\* in the body was handled by a context; runner, executor.py 25-27, puts
\* what it got
WorkerLeaveScope ==
    /\ wpc = "w_unwind" /\ stack = <<>>
    /\ IF exc # "none"
       THEN /\ wret' = "raised"
            /\ UNCHANGED queue
       ELSE /\ wret' = IF wret = "unset" THEN "None" ELSE wret
            /\ queue' = Append(queue, wret')
    /\ wpc' = "w_exited"
    /\ UNCHANGED <<ppc, result>>
    /\ UNCHANGED <<stack, exc, passed, sitl, relay, control, attackConn,
                   monConn, stop, tpc, attackOpenLost, monOpenLost,
                   executeCalled>>
    /\ UNCHANGED <<thr, inp, mvars, xvars, ovars>>

WorkerNext ==
    \/ WorkerLaunchSitl
    \/ WorkerStartRelay
    \/ WorkerConnect
    \/ WorkerEnterAttack
    \/ WorkerEnterMonitor
    \/ WorkerExecute
    \/ WorkerNotify
    \/ WorkerVerdict
    \/ WorkerSettle
    \/ WorkerOutcome
    \/ UnwindMonitor
    \/ UnwindAttackStop
    \/ UnwindAttackJoin
    \/ UnwindControl
    \/ UnwindSitl
    \/ WorkerLeaveScope

\* ---- the parent: run_with_monitor_in_process, executor.py 21-44 ----

\* executor.py 29-33: the queue, the process, p.start()
ParentStart ==
    /\ ppc = "p_start"
    /\ wpc' = "w_launch"
    /\ ppc' = "p_join"
    /\ UNCHANGED <<stack, exc, wret, queue, result, passed, sitl, relay,
                   control, attackConn, monConn, stop, tpc, attackOpenLost,
                   monOpenLost, executeCalled>>
    /\ UNCHANGED <<thr, inp, mvars, xvars, ovars>>

\* executor.py 34-35: p.join(timeout) returns when the worker has ended, or
\* at the wall-clock cap, whatever the worker is doing
ParentJoin ==
    /\ ppc = "p_join"
    /\ ppc' = "p_check"
    /\ UNCHANGED <<wpc, stack, exc, wret, queue, result, passed, sitl, relay,
                   control, attackConn, monConn, stop, tpc, attackOpenLost,
                   monOpenLost, executeCalled>>
    /\ UNCHANGED <<thr, inp, mvars, xvars, ovars>>

\* executor.py 37-44: terminate a live worker and report failure; else
\* take the worker's result from the queue, or report failure on Empty
ParentCollect ==
    /\ ppc = "p_check"
    /\ IF WorkerAlive
       THEN /\ wpc' = "w_killed"
            /\ tpc' = IF WatcherActive THEN "killed" ELSE tpc
            /\ result' = "TestOutcome(False)"
       ELSE /\ result' = IF queue # <<>> THEN Head(queue)
                                            ELSE "TestOutcome(False)"
            /\ UNCHANGED <<wpc, tpc>>
    /\ ppc' = "p_returned"
    /\ UNCHANGED <<stack, exc, wret, queue, passed, sitl, relay, control,
                   attackConn, monConn, stop, attackOpenLost, monOpenLost,
                   executeCalled>>
    /\ UNCHANGED <<thr, inp, mvars, xvars, ovars>>

ParentNext ==
    \/ ParentStart
    \/ ParentJoin
    \/ ParentCollect

TNext == ParentNext \/ WorkerNext \/ WatcherNext \/ listener_waypoint

\* one trial, run in its worker process, with the watcher thread
SpecTrial == TInit /\ [][TNext]_vars

\* the same, with the parent, the worker and the watcher thread each kept
\* running
LiveTrial ==
    /\ TInit /\ [][TNext]_vars
    /\ WF_vars(ParentNext) /\ WF_vars(WorkerNext) /\ WF_vars(WatcherNext)

(***************************************************************************)
(* A SimpleMonitor driven by any caller: open, telemetry,                  *)
(* notify_mission_end and close in any order                               *)
(***************************************************************************)
MonInit ==
    /\ ProtocolIdle /\ commands \in Missions
    /\ TrialIdle /\ PoolIdle /\ IdentityIdle /\ RestIdle

\* SimpleMonitor.open, simple.py 45-54; a connect that raises leaves the
\* monitor as it was
MonOpen ==
    /\ monConn # "open"
    /\ monConn' = "open"
    /\ UNCHANGED <<ppc, wpc, stack, exc, wret, queue, result, passed, sitl,
                   relay, control, attackConn, hasAttack, trigger, stop, tpc,
                   attackOpenLost, monOpenLost, executeCalled>>
    /\ UNCHANGED <<thr, mvars, xvars, ovars>>

\* SimpleMonitor.notify_mission_end on a monitor that has a connection
MonNotify ==
    /\ monConn # "none"
    /\ notify_mission_end
    /\ UNCHANGED <<visited, vrd, execOutcome, acq, rel>>
    /\ UNCHANGED <<mvars, tvars, ovars>>

\* SimpleMonitor.close, simple.py 81-83
MonClose ==
    /\ monConn = "open"
    /\ monConn' = "closed"
    /\ UNCHANGED <<ppc, wpc, stack, exc, wret, queue, result, passed, sitl,
                   relay, control, attackConn, hasAttack, trigger, stop, tpc,
                   attackOpenLost, monOpenLost, executeCalled>>
    /\ UNCHANGED <<thr, mvars, xvars, ovars>>

MonNext == MonOpen \/ listener_waypoint \/ MonNotify \/ MonClose

SpecMonitor == MonInit /\ [][MonNext]_vars

(***************************************************************************)
(* The MAVLink port pool of StartTestSuite (plugin.py 189-190, 217).       *)
(* CircleIntBuffer is imported from the package's util module; it is       *)
(* modelled as the design document describes it: take(n) returns n ports   *)
(* starting at the cursor, advances the cursor modulo the size of the      *)
(* range, and fails with ExhaustedRange when n exceeds that size.          *)
(***************************************************************************)
PORT_LOW == 13000

PoolInit ==
    /\ poolWidth \in 1..MaxWidth
    /\ poolCursor = 0 /\ poolLast = <<>> /\ poolError = FALSE
    /\ poolLog = <<>>
    /\ MissionIdle /\ TrialIdle /\ IdentityIdle /\ RestIdle

\* the ports handed out by one take: n consecutive offsets from the cursor,
\* taken modulo the size of the range
take_ports(cursor, n, width) ==
    [i \in 1..n |-> PORT_LOW + ((cursor + i - 1) % width)]

\* a cursor that stays where it is
Advanced_Stay(cursor, n, width) == cursor

\* the cursor after a take of n ports
Advanced(cursor, n, width) == (cursor + n) % width

\* CircleIntBuffer.take(n): what it does to the pool
take_pool(n) ==
    /\ Len(poolLog) < MaxCalls
    /\ IF n > poolWidth
       THEN /\ poolError' = TRUE
            /\ poolLast' = <<>>
            /\ UNCHANGED <<poolCursor, poolLog>>
       ELSE /\ poolError' = FALSE
            /\ poolLast' = take_ports(poolCursor, n, poolWidth)
            /\ poolCursor' = Advanced(poolCursor, n, poolWidth)
            /\ poolLog' = Append(poolLog, poolLast')
    /\ UNCHANGED poolWidth

\* CircleIntBuffer.take(n)
take(n) ==
    /\ take_pool(n)
    /\ UNCHANGED <<ivars, rvars, mvars, tvars, xvars>>

\* any caller of the pool
PoolTake == \E n \in 1..MaxTake : take(n)

\* plugin.py 217: ports_mavlink = self._port_pool_mavlink.take(3)
ExecuteTake == take(3)

PoolNext == PoolTake \/ ExecuteTake

SpecPorts == PoolInit /\ [][PoolNext]_vars

(***************************************************************************)
(* Mission as a value: the methods attr.s generates for the class of       *)
(* ardu.py 45-54.  A Mission is taken by its two init fields; home_location *)
(* and waypoints are derived from commands.                                *)
(***************************************************************************)
Filenames == {"a.wpl", "b.wpl"}

MissionObjects == [filename : Filenames, commands : Missions]

\* an equality that compares the commands as well
Mission_eq_WithCommands(a, b) ==
    a.filename = b.filename /\ a.commands = b.commands

\* Mission.__eq__: attr.s compares the fields that have eq=True; commands,
\* home_location and waypoints are declared eq=False (ardu.py 49-54)
Mission_eq(a, b) == a.filename = b.filename

\* Mission.__hash__: attr.s hashes the tuple of the fields that take part in
\* the hash; commands, home_location and waypoints are declared hash=False
Mission_hash(m) == <<m.filename>>

PyBool(b) == IF b THEN "True" ELSE "False"

IdentityInit ==
    /\ idA \in MissionObjects /\ idB \in MissionObjects
    /\ idEq = "unset" /\ idHashEq = "unset"
    /\ MissionIdle /\ TrialIdle /\ PoolIdle /\ RestIdle

\* idA == idB and hash(idA) == hash(idB)
Compare ==
    /\ idEq = "unset"
    /\ idEq' = PyBool(Mission_eq(idA, idB))
    /\ idHashEq' = PyBool(Mission_hash(idA) = Mission_hash(idB))
    /\ UNCHANGED <<idA, idB, pvars, rvars, mvars, tvars, xvars>>

SpecIdentity == IdentityInit /\ [][Compare]_vars

(***************************************************************************)
(* Mission.from_file and the constructor attr.s generates (ardu.py 45-79). *)
(* A file is a list of lines; a line is the header, or the text of one of  *)
(* the commands of Cmds.                                                   *)
(***************************************************************************)
CommandLines == {"line_a", "line_b"}

\* the files read: empty, or a header followed by command lines
Files ==
    {<<>>} \cup {<<"QGC WPL 110">> \o body :
                     body \in SeqsUpTo(CommandLines, MaxCmds)}

\* the lines line_to_command can parse (ardu.py 85-90: int() and float() of
\* the fields raise ValueError on the header)
Parses(l) == l \in CommandLines

\* Mission.line_to_command, ardu.py 81-94
line_to_command(l) == IF l = "line_a" THEN "wp_a" ELSE "wp_b"

\* a slice that keeps the first line
SkipHeader_Keep(lines) == lines

\* ardu.py 79: lines[1:]
SkipHeader(lines) ==
    IF lines = <<>> THEN <<>> ELSE SubSeq(lines, 2, Len(lines))

\* Mission.validate_commands, ardu.py 67-70: if not self.commands
validate_commands(cmds) == cmds # <<>>

\* Mission(filename=..., commands=...): the generated __init__ sets the
\* fields, runs the validator, then __attrs_post_init__ (ardu.py 56-65)
NewMission(name, cmds) ==
    IF validate_commands(cmds)
    THEN [outcome |-> "Mission",
          mission |-> [filename |-> name, commands |-> cmds,
                       home_location |-> home_location(cmds),
                       waypoints |-> waypoints(cmds)]]
    ELSE [outcome |-> "ValueError", mission |-> NoMission]

LoadInit ==
    /\ ldFilename \in Filenames /\ ldLines \in Files
    /\ ldOp = "none" /\ ldOutcome = "unset" /\ ldMission = NoMission
    /\ MissionIdle /\ TrialIdle /\ PoolIdle /\ IdentityIdle /\ SitlIdle
    /\ CapIdle

\* Mission.from_file, ardu.py 72-79
from_file ==
    /\ ldOutcome = "unset"
    /\ ldOp' = "from_file"
    /\ LET body == SkipHeader(ldLines)
       IN  IF \E i \in 1..Len(body) : ~Parses(body[i])
           THEN /\ ldOutcome' = "ValueError"
                /\ UNCHANGED ldMission
           ELSE LET made == NewMission(ldFilename,
                                [i \in 1..Len(body) |->
                                     line_to_command(body[i])])
                IN  /\ ldOutcome' = made.outcome
                    /\ ldMission' = made.mission
    /\ UNCHANGED <<ldFilename, ldLines, svars, cvars, pvars, ivars, mvars,
                   tvars, xvars>>

\* Mission(filename, commands) called with any list of commands
Construct ==
    /\ ldOutcome = "unset"
    /\ ldOp' = "Mission"
    /\ \E cmds \in SeqsUpTo(Cmds, MaxCmds) :
           LET made == NewMission(ldFilename, cmds)
           IN  /\ ldOutcome' = made.outcome
               /\ ldMission' = made.mission
    /\ UNCHANGED <<ldFilename, ldLines, svars, cvars, pvars, ivars, mvars,
                   tvars, xvars>>

LoadNext == from_file \/ Construct

SpecLoad == LoadInit /\ [][LoadNext]_vars

(***************************************************************************)
(* A SITL object (ardu.py 245-355) whose open and close are called in any  *)
(* order.  The simulator process may exit by itself at any time; after     *)
(* killall -15 it exits within the 0.5 s wait or is killed.                *)
(***************************************************************************)
SitlInit ==
    /\ SitlIdle
    /\ MissionIdle /\ TrialIdle /\ PoolIdle /\ IdentityIdle /\ LoadIdle
    /\ CapIdle

\* SITL.open, ardu.py 326-332: popen and a sleep, whatever the state
SitlOpen ==
    /\ sOpens < MaxCalls
    /\ sOpens' = sOpens + 1
    /\ sProc' = "running"
    /\ sState' = "ready"
    /\ sErr' = "none"
    /\ sClosedActs' = (sClosedActs \/ sState = "closed")
    /\ UNCHANGED <<sCloses, sKillCmds, sWaits, sForced>>
    /\ UNCHANGED <<lvars, cvars, pvars, ivars, mvars, tvars, xvars>>

\* SITL.close, ardu.py 334-348: the assert, killall -15, wait(0.5), and on
\* TimeoutExpired kill() and wait()
SitlClose ==
    /\ sCloses < MaxCalls
    /\ sCloses' = sCloses + 1
    /\ IF sProc = "none"
       THEN /\ sErr' = "AssertionError"
            /\ UNCHANGED <<sState, sProc, sKillCmds, sWaits, sForced,
                           sClosedActs>>
       ELSE /\ sErr' = "none"
            /\ sKillCmds' = sKillCmds + 1
            /\ \/ /\ sWaits' = sWaits + 1
                  /\ UNCHANGED sForced
               \/ /\ sProc = "running"
                  /\ sWaits' = sWaits + 2
                  /\ sForced' = sForced + 1
            /\ sProc' = "exited"
            /\ sState' = "closed"
            /\ sClosedActs' = (sClosedActs \/ sState = "closed")
    /\ UNCHANGED sOpens
    /\ UNCHANGED <<lvars, cvars, pvars, ivars, mvars, tvars, xvars>>

\* the simulator process ends by itself
SitlExits ==
    /\ sProc = "running"
    /\ sProc' = "exited"
    /\ UNCHANGED <<sState, sOpens, sCloses, sKillCmds, sWaits, sForced, sErr,
                   sClosedActs>>
    /\ UNCHANGED <<lvars, cvars, pvars, ivars, mvars, tvars, xvars>>

SitlNext == SitlOpen \/ SitlClose \/ SitlExits

SpecSitl == SitlInit /\ [][SitlNext]_vars

(***************************************************************************)
(* The two timeouts of a trial: StartTestSuite._execute_with_monitor       *)
(* (plugin.py 208-227) builds the arguments, run_with_monitor_in_process   *)
(* (executor.py 21-44) joins the worker for at most its timeout, and the   *)
(* worker gives its timeout to mission.execute (executor.py 102).  Time is *)
(* counted in seconds since p.start(); the worker spends at least one of   *)
(* them before mission.execute starts its timer (SITL.open alone sleeps    *)
(* for five).                                                              *)
(***************************************************************************)
CAP_MARGIN == 10

CapInit ==
    /\ cTimeoutMission \in 0..MaxTimeout
    /\ cOverall = 0 /\ cCap = 0 /\ cInner = 0 /\ cClock = 0
    /\ cExecStart = 0 /\ cWorker = "idle" /\ cParent = "idle"
    /\ poolWidth \in 1..MaxWidth /\ poolCursor \in 0..(poolWidth - 1)
    /\ poolLast = <<>> /\ poolError = FALSE /\ poolLog = <<>>
    /\ MissionIdle /\ TrialIdle /\ IdentityIdle /\ LoadIdle /\ SitlIdle

capothers == <<lvars, svars, ivars, mvars, tvars, xvars>>

\* plugin.py 215-227 with executor.py 23 and 47-56: timeout_overall is
\* computed, three ports are taken, kwargs['timeout'] is timeout_mission,
\* and both the parent and the worker take their timeout from
\* kwargs['timeout'].  A take that fails ends the call before any process
\* is started
CapExecuteWithMonitor ==
    /\ cParent = "idle"
    /\ cOverall' = cTimeoutMission + CAP_MARGIN
    /\ take_pool(3)
    /\ IF poolError'
       THEN /\ cParent' = "raised"
            /\ UNCHANGED <<cCap, cInner, cWorker>>
       ELSE /\ cCap' = cTimeoutMission
            /\ cInner' = cTimeoutMission
            /\ cParent' = "joining"
            /\ cWorker' = "launching"
    /\ UNCHANGED <<cTimeoutMission, cClock, cExecStart>>
    /\ UNCHANGED capothers

\* a second passes while the parent is in p.join(timeout), which returns
\* when the timeout is reached
CapTick ==
    /\ cParent = "joining" /\ cWorker \in {"launching", "executing"}
    /\ cClock < cCap
    /\ cClock' = cClock + 1
    /\ UNCHANGED <<cTimeoutMission, cOverall, cCap, cInner, cExecStart,
                   cWorker, cParent>>
    /\ UNCHANGED <<pvars, capothers>>

\* executor.py 65-102: the launch and the sessions are done and
\* mission.execute starts its Stopwatch
CapWorkerStartsMission ==
    /\ cWorker = "launching" /\ cParent = "joining"
    /\ cClock >= 1
    /\ cExecStart' = cClock
    /\ cWorker' = "executing"
    /\ UNCHANGED <<cTimeoutMission, cOverall, cCap, cInner, cClock, cParent>>
    /\ UNCHANGED <<pvars, capothers>>

\* ardu.py 215-237: one poll of execute: the mission is complete, or the
\* deadline has passed and TimeoutError is raised, or the loop goes on
CapWorkerPoll ==
    /\ cWorker = "executing" /\ cParent = "joining"
    /\ \/ cWorker' = "completed"
       \/ /\ cClock - cExecStart > cInner
          /\ cWorker' = "timed_out"
    /\ UNCHANGED <<cTimeoutMission, cOverall, cCap, cInner, cClock,
                   cExecStart, cParent>>
    /\ UNCHANGED <<pvars, capothers>>

\* executor.py 34-44: p.join returns because the worker has ended, or at
\* the timeout, and a worker still alive is terminated
CapParentReturns ==
    /\ cParent = "joining"
    /\ IF cWorker \in {"completed", "timed_out"}
       THEN cParent' = "collected"
       ELSE /\ cClock >= cCap
            /\ cParent' = "killed"
    /\ UNCHANGED <<cTimeoutMission, cOverall, cCap, cInner, cClock,
                   cExecStart, cWorker>>
    /\ UNCHANGED <<pvars, capothers>>

CapNext ==
    \/ CapExecuteWithMonitor
    \/ CapTick
    \/ CapWorkerStartsMission
    \/ CapWorkerPoll
    \/ CapParentReturns

SpecCap == CapInit /\ [][CapNext]_vars

(***************************************************************************)
(* Properties of Mission.issue and Mission.execute                         *)
(***************************************************************************)
IssuePcs == {"i_armable", "i_home", "i_arm", "i_armed", "i_clear", "i_add",
             "i_upload", "i_mode", "i_start"}

IssueWaitPcs == {"i_armable", "i_home", "i_armed"}

IssueReturned == mpc \in {"e_setup", "e_poll", "e_detach", "raised_mission",
                           "returned"}

ExecReturned == mpc \in {"e_detach", "returned"}

IsPrefix(s, t) == Len(s) <= Len(t) /\ s = SubSeq(t, 1, Len(s))

\* the protocol steps of a complete issue, in the order claimed
ExpectedLog ==
    <<"armable", "home", "set_armed", "armed", "clear">>
    \o [i \in 1..Len(commands) |-> "add"]
    \o <<"upload", "ack", "mode", "start">>

\* C1: execute returns normally only at a poll that reads a zero cursor
\* after some poll of the same call has read a non-zero cursor; it never
\* returns normally while every value read so far is zero.
C1_ReturnsOnlyAfterStart ==
    ExecReturned => (command_num = 0 /\ readNonZero)

\* a run that read zero first, then non-zero, then zero, and returned
C1_Witness ==
    mpc = "returned" /\ idleReads /\ readNonZero /\ command_num = 0

\* C2 (as amended): the polling loop of execute always ends; no poll is
\* made after the first poll at which timer.duration exceeds
\* timeout_mission; execute returns normally only if a poll no later than
\* that one read zero after a non-zero read, and raises the mission timeout
\* at that poll otherwise.
C2_RaisesUnlessCompleted ==
    /\ [](latePolls <= 1)
    /\ [](mpc = "raised_mission" =>
             (latePolls = 1 /\ ~(readNonZero /\ command_num = 0)))
    /\ [](ExecReturned => (readNonZero /\ command_num = 0))
    /\ ((mpc = "e_poll") ~> (mpc \in {"e_detach", "raised_mission"}))

\* the cursor left zero, was never read as zero again, and the mission
\* timeout was raised
C2_Witness ==
    mpc = "raised_mission" /\ readNonZero /\ command_num # 0 /\ latePolls = 1

\* C2 (as stated): execute returns normally only if the cursor was read as
\* zero, after leaving zero, before the timeout_mission deadline.
C2_AsStated ==
    ExecReturned => latePolls = 0

\* C3: the steps of issue occur in the claimed order and none is skipped:
\* at every moment the steps taken so far are a prefix of the full
\* protocol, a returned issue has taken all of them, and exactly one
\* mission-start command, with last item len(commands) + 1, was sent.
C3_ProtocolOrder ==
    /\ IsPrefix(log, ExpectedLog)
    /\ Len(startSent) <= 1
    /\ IssueReturned =>
          /\ log = ExpectedLog
          /\ startSent = <<Len(commands) + 1>>
          /\ armedSet /\ mode = "AUTO"
    /\ mode = "AUTO" => (Len(log) >= Len(ExpectedLog) - 1)

\* a two-command mission was issued completely
C3_Witness ==
    mpc = "e_setup" /\ Len(commands) = 2 /\ log = ExpectedLog

\* C4: issue always ends, by returning or by raising the timeout error,
\* and no polling loop of issue goes round again once a poll has found the
\* deadline passed.
C4_IssueTerminates ==
    /\ <>(mpc \notin IssuePcs)
    /\ [][(mpc \in IssueWaitPcs /\ timer > toSetup) => mpc' # mpc]_vars

\* issue raised the timeout error after its deadline had passed
C4_Witness ==
    mpc = "raised_setup" /\ timer > toSetup /\ ~armedSet

\* C5: issue never sets armed, uploads, switches mode or returns normally
\* at a time later than `timeout' after its start.
C5_NoActionAfterDeadline ==
    ~lateAct

\* C6: when issue has returned, the list uploaded to the vehicle is exactly
\* the mission's commands in order; while commands are being added the
\* client-side list holds exactly the commands added so far.
C6_UploadedIsMission ==
    /\ IssueReturned => uploaded = commands
    /\ mpc \in {"i_add", "i_upload"} =>
          vcmds = SubSeq(commands, 1, addIdx - 1)

\* a mission of two different commands was uploaded
C6_Witness ==
    /\ mpc = "e_setup" /\ Len(commands) = 2
    /\ commands[1] # commands[2] /\ uploaded = commands

(***************************************************************************)
(* Properties of the attack watcher and of the trial                       *)
(***************************************************************************)
WatcherEnded == tpc \in {"exit", "killed"}

InStack(c) == \E i \in 1..Len(stack) : stack[i] = c

\* C7: the watcher writes the parameter at most once, only after it has
\* read a cursor at or past the trigger waypoint, never after it met a
\* connection loss, and it stops watching after the write: once it has
\* ended having read such a cursor, without connection loss, it has called
\* _send exactly once and delivered exactly one write.
C7_OneWriteAfterTrigger ==
    /\ writes <= 1 /\ sendAttempts <= 1 /\ writes <= sendAttempts
    /\ sendAttempts >= 1 => (sawTrigger /\ wpCurrent >= trigger)
    /\ tpc = "send" => (wpCurrent >= trigger /\ sendAttempts = 0)
    /\ watcherLost => (writes = 0 /\ WatcherEnded)
    /\ sendAttempts = 1 => WatcherEnded
    /\ (tpc = "exit" /\ sawTrigger /\ ~watcherLost) => writes = 1

\* the watcher first read a cursor below its trigger, later one at or past
\* it, wrote the parameter and ended
C7_Witness ==
    /\ writes = 1 /\ tpc = "exit" /\ trigger = 2 /\ wpCurrent = 2
    /\ ~watcherLost

\* C8: when the scope of the attack watcher has been left the stop signal
\* is set; a watcher that finds the signal set at its wait starts no
\* further poll and ends; the attack session is closed only after the
\* watcher thread has ended, and the thread never uses a closed session.
C8_JoinBeforeClose ==
    /\ [](attackConn = "closed" => (stop /\ tpc = "exit"))
    /\ [](~useAfterClose)
    /\ [](attackConn = "open" => InStack("attack"))
    /\ [](wpc = "w_join" => stop)
    /\ [][(stop /\ tpc = "wait") => tpc' # "read"]_vars
    /\ (stop ~> WatcherEnded)

\* the scope was left by an exception while the watcher was still
\* watching; the thread has ended and the session is closed
C8_Witness ==
    /\ attackConn = "closed" /\ tpc = "exit" /\ stop
    /\ monOpenLost /\ writes = 0 /\ ~watcherLost

\* C9: a connection loss in the attack watcher or in the monitor, also
\* while its session is being opened, is absorbed: the mission is still
\* executed and run_with_monitor still returns a TestOutcome, unless the
\* simulator or its relay failed.
C9_LossAbsorbed ==
    (/\ wpc = "w_exited"
     /\ (attackOpenLost \/ monOpenLost \/ watcherLost)
     /\ exc \notin {"LaunchError", "TimeoutExpired"})
    => (executeCalled /\ wret \in Outcomes)

\* C10: run_with_monitor_in_process returns a TestOutcome, never None, and
\* run_with_monitor leaves its scope only by returning a TestOutcome or by
\* raising.
C10_AlwaysOutcome ==
    /\ ppc = "p_returned" => result \in Outcomes
    /\ wpc = "w_exited" => wret \in Outcomes \cup {"raised"}

(***************************************************************************)
(* Properties of SimpleMonitor                                             *)
(***************************************************************************)

\* C11: after notify_mission_end on a fresh monitor, is_ok() is true exactly
\* when the set of indices the listener had collected equals the mission's
\* waypoint ids and the location read is less than DIST_APPROX_SAME metres
\* from home; it is false when either test fails.
C11_OkIffBothCriteria ==
    notifyCalls = 1 =>
        (is_ok <=>
            /\ visitedAtEnd = waypoints(commands)
            /\ distance_metres_sq(home_location(commands), locAtEnd)
                   < DIST_APPROX_SAME * DIST_APPROX_SAME)

\* a two-command mission whose monitor saw both indices, was notified near
\* home and reports ok
C11_Witness ==
    /\ notifyCalls = 1 /\ is_ok
    /\ Len(commands) = 2 /\ visitedAtEnd = {0, 1}
    /\ locAtEnd # home_location(commands)

(***************************************************************************)
(* Properties of run_with_monitor and run_with_monitor_in_process          *)
(***************************************************************************)

\* C12: notify_mission_end is called only after mission.execute has
\* returned normally; when execute raises TimeoutError the monitor is not
\* notified, its verdict is not read, and the outcome is passed = False
\* whatever the monitor has collected.
C12_NotifyOnlyAfterReturn ==
    /\ notifyCalls > 0 => execOutcome = "returned"
    /\ verdictRead => notifyCalls > 0
    /\ execOutcome = "TimeoutError" =>
           /\ notifyCalls = 0 /\ ~verdictRead /\ ~passed
           /\ wret \in Outcomes => wret = "TestOutcome(False)"
           /\ result # "unset" => result = "TestOutcome(False)"

\* a timed-out mission whose monitor had seen exactly the mission's
\* waypoints, reported as failed
C12_Witness ==
    /\ execOutcome = "TimeoutError"
    /\ visited = waypoints(commands)
    /\ wret = "TestOutcome(False)"
    /\ result = "TestOutcome(False)"

\* C13: on the success path the verdict that becomes TestOutcome.passed is
\* read only after the settle sleep has elapsed, so that it agrees with what
\* the monitor has collected by the end of that sleep.
C13_VerdictAfterSettle ==
    /\ ~earlyVerdict
    /\ (wpc = "w_outcome" /\ execOutcome = "returned") =>
           (passed <=> (visited = waypoints(commands) /\ reachedHome))

Reverse(s) == [i \in 1..Len(s) |-> s[Len(s) + 1 - i]]

\* C14: however run_with_monitor leaves its scope, what it has released is
\* at every moment the latest acquisitions in reverse order, each once and
\* nothing that was not acquired, and when the scope has been left
\* everything acquired has been released.
C14_ReverseRelease ==
    /\ IsPrefix(rel, Reverse(acq))
    /\ wpc = "w_exited" => rel = Reverse(acq)

\* C15: when run_with_monitor_in_process has returned, a worker that was
\* still alive at the cap has been terminated and the result is a failed
\* outcome; a worker that ended without putting a result gives a failed
\* outcome; and the result is what the worker put exactly when the worker
\* ended by itself and put something.
C15_ResultOfParent ==
    /\ wpc = "w_killed" => ppc = "p_returned"
    /\ ppc = "p_returned" =>
           /\ wpc \in {"w_killed", "w_exited"}
           /\ wpc = "w_killed" => result = "TestOutcome(False)"
           /\ (wpc = "w_exited" /\ queue = <<>>) =>
                  result = "TestOutcome(False)"
           /\ (wpc = "w_exited" /\ queue # <<>>) => result = Head(queue)
           /\ result = "TestOutcome(True)" =>
                  (wpc = "w_exited" /\ queue = <<"TestOutcome(True)">>)

\* a worker whose monitor had already given a passing verdict, terminated
\* at the cap
C15_Witness ==
    /\ ppc = "p_returned" /\ wpc = "w_killed" /\ passed
    /\ result = "TestOutcome(False)"

\* C16: once the trial has returned its outcome, by any path, the simulator
\* and the relay started for it are no longer running and none of the three
\* sessions is open.
C16_TeardownComplete ==
    ppc = "p_returned" =>
        /\ sitl # "ready"
        /\ relay \notin {"running", "signalled"}
        /\ control # "open" /\ attackConn # "open" /\ monConn # "open"

\* C17: when the launch of the simulator or the start of its relay has
\* failed, no session has been or will be opened, the attack watcher and
\* the monitor are not started, and mission.execute is not called.
C17_LaunchFailureAborts ==
    exc = "LaunchError" =>
        /\ control = "none" /\ attackConn = "none" /\ monConn = "none"
        /\ tpc = "none" /\ visited = {} /\ notifyCalls = 0
        /\ ~executeCalled /\ execOutcome = "none"
        /\ acq \in {<<>>, <<"sitl">>}

\* the relay could not be started: the simulator was closed again and the
\* trial has returned a failed outcome
C17_Witness ==
    /\ exc = "LaunchError" /\ sitl = "closed" /\ wpc = "w_exited"
    /\ ppc = "p_returned" /\ result = "TestOutcome(False)"

\* C18: a trial of a one-command mission that ran without any failure,
\* whose monitor was told of the cursor values 0 and 1 and read the home
\* location at the end of the mission, returns a passing outcome.
C18_EndToEndPasses ==
    ( /\ ppc = "p_returned" /\ wpc = "w_exited" /\ exc = "none"
      /\ Len(commands) = 1 /\ execOutcome = "returned"
      /\ visitedAtEnd = {0, 1}
      /\ locAtEnd = home_location(commands)
      /\ ~watcherLost /\ ~attackOpenLost /\ ~monOpenLost )
    => result = "TestOutcome(True)"

(***************************************************************************)
(* Properties of the port pool                                             *)
(***************************************************************************)
Ports(t) == {t[i] : i \in 1..Len(t)}

RECURSIVE TakenFromTo(_, _, _)
\* the number of ports handed out by the takes i..j of a history
TakenFromTo(h, i, j) ==
    IF i > j THEN 0 ELSE Len(h[i]) + TakenFromTo(h, i + 1, j)

\* C19: every take returns as many ports as were asked for, pairwise
\* distinct and inside the pool's range, and two takes share no port as
\* long as the takes from the earlier to the later one hand out no more
\* ports in total than the range holds (so that the cursor has not come
\* round to the earlier take's ports again).
C19_TakeDisjoint ==
    /\ \A k \in 1..Len(poolLog) :
           /\ Cardinality(Ports(poolLog[k])) = Len(poolLog[k])
           /\ Ports(poolLog[k]) \subseteq
                  PORT_LOW..(PORT_LOW + poolWidth - 1)
    /\ \A i \in 1..Len(poolLog) : \A j \in (i + 1)..Len(poolLog) :
           TakenFromTo(poolLog, i, j) <= poolWidth =>
               Ports(poolLog[i]) \cap Ports(poolLog[j]) = {}
    /\ (~poolError /\ poolLog # <<>>) => poolLast = poolLog[Len(poolLog)]

\* two takes of three ports from a pool of six, which wrapped the cursor
C19_Witness ==
    /\ poolWidth = 6 /\ Len(poolLog) = 2 /\ poolCursor = 0
    /\ Len(poolLog[1]) = 3 /\ Len(poolLog[2]) = 3
    /\ Ports(poolLog[1]) \cap Ports(poolLog[2]) = {}

(***************************************************************************)
(* Properties of Mission as a value                                        *)
(***************************************************************************)

\* C20: two Missions are equal exactly when they have the same filename,
\* whatever their commands, and equal Missions hash equally.
C20_EqualOnFilename ==
    idEq # "unset" =>
        /\ idEq = "True" <=> idA.filename = idB.filename
        /\ idEq = "True" => idHashEq = "True"

\* two Missions with the same filename and different commands, compared and
\* found equal
C20_Witness ==
    /\ idEq = "True" /\ idHashEq = "True"
    /\ idA.filename = idB.filename /\ idA.commands # idB.commands

\* C20 as stated: two Missions are equal, and hash equally, exactly when
\* they have the same filename and the same commands.
C20_AsStated ==
    idEq # "unset" =>
        /\ idEq = "True" <=>
               (idA.filename = idB.filename /\ idA.commands = idB.commands)
        /\ idHashEq = "True" <=>
               (idA.filename = idB.filename /\ idA.commands = idB.commands)

(***************************************************************************)
(* Properties of Mission.from_file and the Mission constructor             *)
(***************************************************************************)

\* C21: no Mission has an empty command list: from_file on a file that holds
\* only a header line ends in an error, and so does the constructor on an
\* empty list; every Mission built has at least one command, its home
\* location taken from commands[0] and the waypoint ids
\* 0 .. len(commands) - 1; from_file builds it from the lines that follow
\* the header.
C21_NoEmptyMission ==
    /\ (ldOp = "from_file" /\ Len(ldLines) <= 1) => ldOutcome = "ValueError"
    /\ (ldOp = "from_file" /\ Len(ldLines) >= 2) =>
           /\ ldOutcome = "Mission"
           /\ Len(ldMission.commands) = Len(ldLines) - 1
           /\ \A i \in 1..Len(ldMission.commands) :
                  ldMission.commands[i] = line_to_command(ldLines[i + 1])
    /\ ldOutcome = "Mission" =>
           /\ Len(ldMission.commands) >= 1
           /\ ldMission.filename = ldFilename
           /\ ldMission.home_location = Position(ldMission.commands[1])
           /\ ldMission.waypoints = {i - 1 : i \in 1..Len(ldMission.commands)}
    /\ ldOutcome # "Mission" => ldMission = NoMission

\* a file with only its header, refused by from_file
C21_Witness ==
    /\ ldOp = "from_file" /\ ldLines = <<"QGC WPL 110">>
    /\ ldOutcome = "ValueError" /\ ldMission = NoMission

(***************************************************************************)
(* Properties of the SITL object                                           *)
(***************************************************************************)

\* C22: nothing leaves the closed state: a call made on a closed simulator
\* sends no kill command, waits for and kills nothing and changes no state;
\* and close acts only on a simulator that was launched.
C22_ClosedIsFinal ==
    /\ ~sClosedActs
    /\ sKillCmds > 0 => sOpens > 0

(***************************************************************************)
(* Properties of the relay, the listeners and the watcher                  *)
(***************************************************************************)

\* C23: leaving the relay's scope never raises and never leaves the relay
\* running: once the relay has been signalled it has exited or been killed
\* by the time the scope is left.
C23_RelayReleased ==
    /\ relay # "signalled"
    /\ exc # "TimeoutExpired"
    /\ (relay # "none" /\ sitl = "closed") => relay = "terminated"

\* C24: when execute has returned normally, the control session has as many
\* STATUSTEXT listeners as it had before execute was called, which is none.
C24_ListenerDetached ==
    mpc = "returned" => listeners = 0

\* C25: the timeout the parent gives to p.join is timeout_mission plus the
\* margin, strictly more than the timeout the worker gives to
\* mission.execute, so that no worker is terminated while its mission has
\* not yet passed its own deadline.
C25_CapAboveMissionTimeout ==
    cParent \in {"joining", "killed", "collected"} =>
        /\ cCap = cTimeoutMission + CAP_MARGIN
        /\ cCap > cInner
        /\ (cParent = "killed" /\ cWorker = "executing") =>
               cClock - cExecStart > cInner

\* C26: once the stop signal of the attack watcher has been set, the watcher
\* starts no parameter write.
C26_NoWriteAfterStop ==
    ~sendAfterStop

\* C27: whatever the order of open, telemetry, notify_mission_end and
\* close, is_ok() is false as long as notify_mission_end has not been
\* called; the two status flags are changed by notify_mission_end alone and
\* only from false to true; and the set of visited waypoints only grows.
C27_MonitorMonotone ==
    /\ [](notifyCalls = 0 => (~is_ok /\ ~reachedHome /\ ~visitedAll))
    /\ [][ /\ (reachedHome' # reachedHome \/ visitedAll' # visitedAll)
               => MonNotify
           /\ reachedHome => reachedHome'
           /\ visitedAll => visitedAll'
           /\ visited \subseteq visited' ]_vars

\* a monitor notified twice and closed, still ok although more telemetry
\* came in after the first notification
C27_Witness ==
    /\ notifyCalls = 2 /\ is_ok /\ monConn = "closed"
    /\ visitedAtEnd # visited
====
